---- MODULE Spec2Model ----
(***************************************************************************)
(* A model of postcss-mixins (src/index.js): the macro registry, the       *)
(* expansion of @include / @add-mixin invocation sites, content injection, *)
(* single-arg escaping and the loader of external mixin files, driven by   *)
(* the host's visitor walk (Once, AtRule handlers, OnceExit).              *)
(*                                                                         *)
(* Text is modelled as a sequence of one-character strings, so that        *)
(* tokenising, trimming, unquoting and substitution are computed the way   *)
(* the code computes them.                                                 *)
(***************************************************************************)
EXTENDS Integers, Sequences, FiniteSets, TLC

VARIABLES
    tree,       \* the children of the document root (sequence of nodes)
    rootClean,  \* the host's clean flag of the root
    cursor,     \* the host walk's position: a path of child indexes
    phase,      \* "start" | "walk" | "exit" | "done" | "failed"
    error,      \* the error that aborted the run, or NoError
    mixins,     \* the registry: name -> record (prepare's `mixins`)
    messages,   \* helpers.result.messages
    opts,       \* the plugin options
    files,      \* the files the configured globs match, in glob order
    log,        \* one entry per handler call that ran (observation only)
    input       \* how the document was built (observation only)

vars == <<tree, rootClean, cursor, phase, error, mixins, messages, opts, files, log, input>>

----------------------------------------------------------------------------
(* Text helpers (JavaScript String methods used by src/index.js).          *)

WHITESPACE == {" ", "\t", "\n"}

QUOTES == {"\"", "'"}

LETTERS == {"a", "b", "c", "d", "e", "f", "g", "h", "i", "j", "k", "l", "m", "n",
            "o", "p", "q", "r", "s", "t", "u", "v", "w", "x", "y", "z"}

DIGITS == {"0", "1", "2", "3", "4", "5", "6", "7", "8", "9"}

\* [a-zA-Z_-] of parseMixin's pattern (the model's text is lower case)
NAME_CHARS == LETTERS \cup {"_", "-"}

\* \w of the variable pattern, and the characters of a variable's name
W_CHARS == LETTERS \cup DIGITS \cup {"_"}

VAR_CHARS == W_CHARS \cup {"-"}

SINGLE_ARG == <<"s", "i", "n", "g", "l", "e", "-", "a", "r", "g">>

INCLUDE == <<"i", "n", "c", "l", "u", "d", "e">>

ADD_MIXIN == <<"a", "d", "d", "-", "m", "i", "x", "i", "n">>

MIXIN == <<"m", "i", "x", "i", "n">>

MIXIN_CONTENT == <<"m", "i", "x", "i", "n", "-", "c", "o", "n", "t", "e", "n", "t">>

Slice(s, from, to) == IF from > to THEN <<>> ELSE SubSeq(s, from, to)

RECURSIVE TrimStart(_)
TrimStart(s) ==
    IF s # <<>> /\ Head(s) \in WHITESPACE THEN TrimStart(Tail(s)) ELSE s

RECURSIVE TrimEnd(_)
TrimEnd(s) ==
    IF s # <<>> /\ s[Len(s)] \in WHITESPACE
    THEN TrimEnd(SubSeq(s, 1, Len(s) - 1)) ELSE s

Trim(s) == TrimEnd(TrimStart(s))

StartsWith(s, p) == Len(s) >= Len(p) /\ SubSeq(s, 1, Len(p)) = p

EndsWith(s, p) == Len(s) >= Len(p) /\ SubSeq(s, Len(s) - Len(p) + 1, Len(s)) = p

\* the 1-based index of the first occurrence of p in s at or after i, 0 if none
RECURSIVE IndexOfFrom(_, _, _)
IndexOfFrom(s, p, i) ==
    IF i + Len(p) - 1 > Len(s) THEN 0
    ELSE IF SubSeq(s, i, i + Len(p) - 1) = p THEN i
    ELSE IndexOfFrom(s, p, i + 1)

Includes(s, p) == IndexOfFrom(s, p, 1) # 0

\* the replacement text of String.prototype.replace: $$ stands for a $ and $&
\* for the matched text (the patterns for the text before and after the match
\* take a quote character after the $, which no replacement text here has)
RECURSIVE GetSubstitution(_, _)
GetSubstitution(value, matched) ==
    IF value = <<>> THEN <<>>
    ELSE IF Len(value) >= 2 /\ value[1] = "$" /\ value[2] \in {"$", "&"}
         THEN (IF value[2] = "$" THEN <<"$">> ELSE matched)
              \o GetSubstitution(Slice(value, 3, Len(value)), matched)
    ELSE <<Head(value)>> \o GetSubstitution(Tail(value), matched)

\* String.prototype.replace(key, value) with a string pattern: the first
\* occurrence only
ReplaceFirst(s, key, value) ==
    LET i == IndexOfFrom(s, key, 1)
        before == Slice(s, 1, i - 1)
        after == Slice(s, i + Len(key), Len(s))
    IN  IF i = 0 THEN s
        ELSE before \o GetSubstitution(value, key) \o after

RECURSIVE Join(_, _)
Join(seqs, sep) ==
    IF seqs = <<>> THEN <<>>
    ELSE IF Len(seqs) = 1 THEN seqs[1]
    ELSE seqs[1] \o sep \o Join(Tail(seqs), sep)

RECURSIVE Flatten(_)
Flatten(seqs) == IF seqs = <<>> THEN <<>> ELSE Head(seqs) \o Flatten(Tail(seqs))

\* postcss list.comma(string): split on commas outside parentheses and quotes,
\* trimming each part; a part that is empty before a comma is dropped, the last
\* part is always kept
RECURSIVE ListSplit(_, _, _, _, _, _, _)
ListSplit(s, i, array, current, func, quote, escape) ==
    IF i > Len(s) THEN Append(array, Trim(current))
    ELSE LET c == s[i]
             split == ~escape /\ c # "\\" /\ quote = "" /\ c \notin QUOTES
                      /\ c # "(" /\ c # ")" /\ func = 0 /\ c = ","
             func2 == IF escape \/ c = "\\" \/ quote # "" \/ c \in QUOTES THEN func
                      ELSE IF c = "(" THEN func + 1
                      ELSE IF c = ")" /\ func > 0 THEN func - 1
                      ELSE func
             quote2 == IF escape \/ c = "\\" THEN quote
                       ELSE IF quote # "" THEN (IF c = quote THEN "" ELSE quote)
                       ELSE IF c \in QUOTES THEN c
                       ELSE quote
             escape2 == ~escape /\ c = "\\"
         IN  IF split
             THEN ListSplit(s, i + 1,
                            IF current # <<>> THEN Append(array, Trim(current)) ELSE array,
                            <<>>, func2, quote2, escape2)
             ELSE ListSplit(s, i + 1, array, Append(current, c), func2, quote2, escape2)

ListComma(s) == ListSplit(s, 1, <<>>, <<>>, 0, "", FALSE)

\* unwrap: the first group of MAYBE_QUOTED_PATTERN, or the string itself
unwrap(str) ==
    IF str = <<>> THEN str
    ELSE IF str[1] \in QUOTES /\ Len(str) >= 3 /\ str[Len(str)] \in QUOTES
         THEN SubSeq(str, 2, Len(str) - 1)
    ELSE IF str[1] \in QUOTES /\ Len(str) >= 2
         THEN SubSeq(str, 2, Len(str))
    ELSE str

\* strs.map(unwrap)
UnwrapAll(strs) == [i \in 1..Len(strs) |-> unwrap(strs[i])]

RECURSIVE NameRun(_, _)
NameRun(s, i) == IF i <= Len(s) /\ s[i] \in NAME_CHARS THEN NameRun(s, i + 1) ELSE i - 1

\* parseMixin(rule): name and paramString of an at-rule's params; ok = FALSE is
\* the "Invalid mixin definition" error
parseMixin(params) ==
    LET n == NameRun(params, 1)
        rest == Slice(params, n + 1, Len(params))
        name == Slice(params, 1, n)
    IN  IF n = 0 THEN [ok |-> FALSE, name |-> <<>>, paramString |-> <<>>]
        ELSE IF rest = <<>> THEN [ok |-> TRUE, name |-> name, paramString |-> <<>>]
        ELSE IF rest[1] = "(" /\ Len(rest) >= 3 /\ rest[Len(rest)] = ")"
             THEN [ok |-> TRUE, name |-> name,
                   paramString |-> Trim(SubSeq(rest, 2, Len(rest) - 1))]
        ELSE IF rest[1] \in WHITESPACE /\ Len(rest) >= 2
             THEN [ok |-> TRUE, name |-> name,
                   paramString |-> Trim(SubSeq(rest, 2, Len(rest)))]
        ELSE IF Len(rest) <= 2 THEN [ok |-> TRUE, name |-> name, paramString |-> <<>>]
        ELSE [ok |-> FALSE, name |-> <<>>, paramString |-> <<>>]

----------------------------------------------------------------------------
(* Tree nodes of the host library: declarations, rules and at-rules.       *)

Decl(prop, value) ==
    [type |-> "decl", name |-> <<>>, text |-> prop, value |-> value,
     nodes |-> <<>>, hasNodes |-> FALSE, clean |-> FALSE]

Rule(selector, nodes) ==
    [type |-> "rule", name |-> <<>>, text |-> selector, value |-> <<>>,
     nodes |-> nodes, hasNodes |-> TRUE, clean |-> FALSE]

\* an at-rule with a block, `@name params { nodes }`
AtRule(name, params, nodes) ==
    [type |-> "atrule", name |-> name, text |-> params, value |-> <<>>,
     nodes |-> nodes, hasNodes |-> TRUE, clean |-> FALSE]

\* an at-rule without a block, `@name params;` (its nodes are undefined)
AtRuleNoBody(name, params) ==
    [type |-> "atrule", name |-> name, text |-> params, value |-> <<>>,
     nodes |-> <<>>, hasNodes |-> FALSE, clean |-> FALSE]

\* a copy that the host's walk takes for visited
CloneVisited(node) == [node EXCEPT !.clean = TRUE]

\* node.clone(): a deep copy; every copied node is new to the host's walk
RECURSIVE CloneNodes(_)
Clone(node) == [node EXCEPT !.clean = FALSE, !.nodes = CloneNodes(node.nodes)]
CloneNodes(nodes) ==
    IF nodes = <<>> THEN <<>> ELSE <<Clone(Head(nodes))>> \o CloneNodes(Tail(nodes))

IsInvocation(node) ==
    node.type = "atrule" /\ node.name \in {INCLUDE, ADD_MIXIN}

IsPlaceholder(node) == node.type = "atrule" /\ node.name = MIXIN_CONTENT

\* container.walkAtRules('mixin-content', ...) finds one
RECURSIVE HasPlaceholder(_)
HasPlaceholder(nodes) ==
    \E i \in 1..Len(nodes) : IsPlaceholder(nodes[i]) \/ HasPlaceholder(nodes[i].nodes)

RECURSIVE CountPlaceholders(_)
CountPlaceholders(nodes) ==
    IF nodes = <<>> THEN 0
    ELSE (IF IsPlaceholder(Head(nodes)) THEN 1 ELSE 0)
         + CountPlaceholders(Head(nodes).nodes) + CountPlaceholders(Tail(nodes))

RECURSIVE HasInvocation(_)
HasInvocation(nodes) ==
    \E i \in 1..Len(nodes) : IsInvocation(nodes[i]) \/ HasInvocation(nodes[i].nodes)

----------------------------------------------------------------------------
(* Parameter substitution: postcss-simple-vars run with { only: values }   *)
(* over the cloned body (src/index.js line 215).                           *)

RECURSIVE VarRun(_, _)
VarRun(s, i) == IF i <= Len(s) /\ s[i] \in VAR_CHARS THEN VarRun(s, i + 1) ELSE i - 1

\* a variable of `only` is replaced by its value, any other is left as written
Variable(values, name) ==
    IF name \in DOMAIN values THEN values[name] ELSE <<"$">> \o name

\* the global pattern (^|[^\w])\$([\w\d-_]+): a match consumes the character
\* before the $, and scanning goes on after the name
RECURSIVE SubstituteFrom(_, _, _, _)
SubstituteFrom(s, i, out, values) ==
    IF i > Len(s) THEN out
    ELSE IF i = 1 /\ s[1] = "$" /\ VarRun(s, 2) >= 2
         THEN LET k == VarRun(s, 2)
              IN  SubstituteFrom(s, k + 1, out \o Variable(values, SubSeq(s, 2, k)), values)
    ELSE IF s[i] \notin W_CHARS /\ i + 1 <= Len(s) /\ s[i + 1] = "$"
            /\ VarRun(s, i + 2) >= i + 2
         THEN LET k == VarRun(s, i + 2)
              IN  SubstituteFrom(s, k + 1,
                                 out \o <<s[i]>> \o Variable(values, SubSeq(s, i + 2, k)),
                                 values)
    ELSE SubstituteFrom(s, i + 1, Append(out, s[i]), values)

Substitute(s, values) == SubstituteFrom(s, 1, <<>>, values)

\* declaration values and at-rule params, at every depth of the fragment
RECURSIVE SubstituteNodes(_, _)
SubstituteNodes(nodes, values) ==
    IF nodes = <<>> THEN <<>>
    ELSE LET n == Head(nodes)
             m == IF n.type = "decl"
                  THEN [n EXCEPT !.value = Substitute(n.value, values)]
                  ELSE IF n.type = "atrule"
                  THEN [n EXCEPT !.text = Substitute(n.text, values),
                                 !.nodes = SubstituteNodes(n.nodes, values)]
                  ELSE [n EXCEPT !.nodes = SubstituteNodes(n.nodes, values)]
         IN  <<m>> \o SubstituteNodes(Tail(nodes), values)

----------------------------------------------------------------------------
(* Content injection and single-arg unwrapping.                            *)

\* an injection that looks at the fragment's own children only
processMixinContentShallow(nodes, from) ==
    LET Filled(n) == IF IsPlaceholder(n)
                     THEN (IF from.hasNodes /\ Len(from.nodes) > 0
                           THEN Clone(from).nodes ELSE <<>>)
                     ELSE <<n>>
    IN  Flatten([i \in 1..Len(nodes) |-> Filled(nodes[i])])

\* processMixinContent(rule, from): every @mixin-content of the fragment is
\* replaced by a clone of from's children, or removed when from has none; the
\* walk does not enter what it inserted
RECURSIVE processMixinContent(_, _)
processMixinContent(nodes, from) ==
    IF nodes = <<>> THEN <<>>
    ELSE LET n == Head(nodes)
             rest == processMixinContent(Tail(nodes), from)
         IN  IF IsPlaceholder(n)
             THEN (IF from.hasNodes /\ Len(from.nodes) > 0
                   THEN Clone(from).nodes ELSE <<>>) \o rest
             ELSE <<[n EXCEPT !.nodes = processMixinContent(n.nodes, from)]>> \o rest

\* resolveSingleArgumentValue(value, parentNode); ok = FALSE is the
\* "Content of single-arg must be wrapped in brackets" error
resolveSingleArgumentValue(value) ==
    LET content == Trim(Slice(value, Len(SINGLE_ARG) + 1, Len(value)))
    IN  IF ~StartsWith(content, <<"(">>) \/ ~EndsWith(content, <<")">>)
        THEN [ok |-> FALSE, inner |-> <<>>]
        ELSE [ok |-> TRUE, inner |-> Slice(content, 2, Len(content) - 1)]

\* new Map(pairs): the pairs in order of each key's first occurrence
RECURSIVE SingleArgumentsMap(_, _)
SingleArgumentsMap(params, acc) ==
    IF params = <<>> THEN acc
    ELSE LET p == Head(params)
         IN  IF StartsWith(p, SINGLE_ARG) /\ \A j \in 1..Len(acc) : acc[j][1] # p
             THEN SingleArgumentsMap(Tail(params),
                                     Append(acc, <<p, resolveSingleArgumentValue(p).inner>>))
             ELSE SingleArgumentsMap(Tail(params), acc)

RECURSIVE ReplaceAll(_, _)
ReplaceAll(value, map) ==
    IF map = <<>> THEN value
    ELSE ReplaceAll(ReplaceFirst(value, Head(map)[1], Head(map)[2]), Tail(map))

\* unwrapSingleArguments(rules, singleArgumentsMap): declarations of the
\* fragment and of its rules; at-rules are not entered
RECURSIVE unwrapSingleArguments(_, _)
unwrapSingleArguments(rules, map) ==
    IF map = <<>> \/ rules = <<>> THEN rules
    ELSE LET n == Head(rules)
             m == IF n.type = "decl"
                  THEN (IF Includes(n.value, SINGLE_ARG)
                        THEN [n EXCEPT !.value = ReplaceAll(n.value, map)] ELSE n)
                  ELSE IF n.type = "rule"
                  THEN [n EXCEPT !.nodes = unwrapSingleArguments(n.nodes, map)]
                  ELSE n
         IN  <<m>> \o unwrapSingleArguments(Tail(rules), map)

----------------------------------------------------------------------------
(* Values a registry record can hold in its `mixin` field, as JavaScript   *)
(* sees them: typeof, the `name` property, and what the value carries.     *)

\* a property that is not there
Undefined == <<"#", "u", "n", "d", "e", "f", "i", "n", "e", "d">>

NoFile == <<>>

\* the at-rule of a @mixin definition (its `name` is the at-rule's name)
NodeValue(rule) ==
    [kind |-> "atrule", name |-> rule.name, nodes |-> rule.nodes,
     hasNodes |-> rule.hasNodes, entries |-> <<>>, does |-> "none"]

\* a plain nested-data object; `name` is its own `name` key, if it has one
ObjectValue(name, entries) ==
    [kind |-> "object", name |-> name, nodes |-> <<>>, hasNodes |-> FALSE,
     entries |-> entries, does |-> "none"]

\* a callable; `name` is the function's name, `does` what the call does,
\* `entries` the object it returns (if it returns one)
FunctionValue(name, does, entries) ==
    [kind |-> "function", name |-> name, nodes |-> <<>>, hasNodes |-> FALSE,
     entries |-> entries, does |-> does]

\* a number, a string, null or undefined
PlainValue(kind) ==
    [kind |-> kind, name |-> Undefined, nodes |-> <<>>, hasNodes |-> FALSE,
     entries |-> <<>>, does |-> "none"]

TypeOf(v) ==
    IF v.kind \in {"atrule", "object", "null"} THEN "object" ELSE v.kind

\* an entry of a nested-data object: key and either a string or an object
StrEntry(key, str) == [key |-> key, isObj |-> FALSE, str |-> str, entries |-> <<>>]

ObjEntry(key, entries) == [key |-> key, isObj |-> TRUE, str |-> <<>>, entries |-> entries]

RECURSIVE NonSpaceRun(_, _)
NonSpaceRun(s, i) ==
    IF i <= Len(s) /\ s[i] \notin WHITESPACE THEN NonSpaceRun(s, i + 1) ELSE i - 1

\* postcss-js parse(obj): a key starting with @ is an at-rule (name up to the
\* first space, params after it), an object under another key a rule, a string
\* a declaration
RECURSIVE parse(_)
parse(entries) ==
    IF entries = <<>> THEN <<>>
    ELSE LET e == Head(entries)
             k == NonSpaceRun(e.key, 2)
             n == IF e.key # <<>> /\ e.key[1] = "@"
                  THEN (IF e.isObj
                        THEN AtRule(Slice(e.key, 2, k),
                                    Trim(Slice(e.key, k + 1, Len(e.key))), parse(e.entries))
                        ELSE AtRuleNoBody(Slice(e.key, 2, k),
                                          Trim(Slice(e.key, k + 1, Len(e.key)))))
                  ELSE IF e.isObj THEN Rule(e.key, parse(e.entries))
                  ELSE Decl(e.key, e.str)
         IN  <<n>> \o parse(Tail(entries))

----------------------------------------------------------------------------
(* Errors.                                                                 *)

Err(kind, name, detail) == [kind |-> kind, name |-> name, detail |-> detail]

NoError == Err("none", <<>>, "")

----------------------------------------------------------------------------
(* The registry.                                                           *)

\* one formal of a definition: [arg, defaults] of addMixin's map callback
RECURSIVE ColonAt(_, _)
ColonAt(s, i) == IF i > Len(s) \/ s[i] = ":" THEN i ELSE ColonAt(s, i + 1)

Formal(str) ==
    LET c == ColonAt(str, 1)
    IN  <<Trim(Slice(str, 2, c - 1)), unwrap(Trim(Slice(str, c + 1, Len(str))))>>

\* list.comma(paramString).map(...)
Formals(strs) == [i \in 1..Len(strs) |-> Formal(strs[i])]

\* the record addMixin stores for a @mixin at-rule; ok = FALSE is parseMixin's
\* error
MixinRecord(rule, file) ==
    LET p == parseMixin(rule.text)
    IN  [ok |-> p.ok,
         name |-> p.name,
         meta |-> [args |-> IF Len(p.paramString) > 0
                            THEN Formals(ListComma(p.paramString)) ELSE <<>>,
                   hasArgs |-> TRUE,
                   content |-> HasPlaceholder(rule.nodes),
                   mixin |-> NodeValue(rule),
                   file |-> file]]

\* a registration that keeps the record a name already has
RegisterOnce(reg, name, meta) ==
    [n \in DOMAIN reg \cup {name} |-> IF n \in DOMAIN reg THEN reg[n] ELSE meta]

\* mixins[name] = record
Register(reg, name, meta) ==
    [n \in DOMAIN reg \cup {name} |-> IF n = name THEN meta ELSE reg[n]]

\* the record prepare() stores for an entry of opts.mixins
ConfigRecord(value) ==
    [args |-> <<>>, hasArgs |-> FALSE, content |-> FALSE, mixin |-> value, file |-> NoFile]

----------------------------------------------------------------------------
(* insertMixin.                                                            *)

\* a binding that takes every actual that is there, the empty one too
BindValuePresent(params, args, i) ==
    IF i <= Len(params) THEN params[i] ELSE args[i][2]

\* values[meta.args[i][0]] = params[i] || meta.args[i][1], i ascending
BindValue(params, args, i) ==
    IF i <= Len(params) /\ params[i] # <<>> THEN params[i] ELSE args[i][2]

Bind(params, args) ==
    [n \in {args[i][1] : i \in 1..Len(args)} |->
        LET last == CHOOSE i \in 1..Len(args) :
                        /\ args[i][1] = n
                        /\ \A j \in 1..Len(args) : args[j][1] = n => j <= i
        IN  BindValue(params, args, last)]

\* insertObject(rule, obj, singleArgumentsMap): the nodes put before rule
insertObject(rule, entries, map) ==
    unwrapSingleArguments(processMixinContent(parse(entries), rule), map)

\* what one call of insertMixin did: the site, the name and actuals it parsed,
\* the record it found, the branch it took, the binding and what it inserted
Call(rule, name, params, branch, meta, values, inserted) ==
    [rule |-> rule, name |-> name, params |-> params, branch |-> branch,
     meta |-> meta, values |-> values, inserted |-> inserted]

NoMeta == ConfigRecord(PlainValue("undefined"))

\* `let mixins = {}`: the registry is a plain object, and mixins[name] also
\* finds what every object inherits; such a value has no `mixin` property
ObjectPrototype ==
    { <<"c", "o", "n", "s", "t", "r", "u", "c", "t", "o", "r">>,
      <<"t", "o", "S", "t", "r", "i", "n", "g">>,
      <<"v", "a", "l", "u", "e", "O", "f">>,
      <<"h", "a", "s", "O", "w", "n", "P", "r", "o", "p", "e", "r", "t", "y">> }

Outcome(err, inserted, nodes, calls) ==
    [err |-> err, inserted |-> inserted, nodes |-> nodes, calls |-> calls]

\* the first actual that starts with single-arg and is not wrapped in brackets
RECURSIVE BadSingleArg(_)
BadSingleArg(params) ==
    IF params = <<>> THEN <<>>
    ELSE IF StartsWith(Head(params), SINGLE_ARG)
            /\ ~resolveSingleArgumentValue(Head(params)).ok
         THEN <<Head(params)>>
    ELSE BadSingleArg(Tail(params))

\* insertMixin(helpers, mixins, rule, opts) on an at-rule: the error it throws
\* (if any), the nodes it inserts before the rule, the rule's own children as
\* it leaves them, and the calls made (this one first, then those nested in a
\* callable's content). The rule is removed unless an error is thrown.
RECURSIVE insertMixin(_, _, _)
RECURSIVE WalkContent(_, _, _)
insertMixin(reg, rule, silent) ==
    LET p == parseMixin(rule.text)
        name == p.name
        params == IF Trim(p.paramString) = <<>> THEN <<>>
                  ELSE UnwrapAll(ListComma(p.paramString))
        bad == BadSingleArg(params)
        map == SingleArgumentsMap(params, <<>>)
        meta == IF name \in DOMAIN reg THEN reg[name] ELSE NoMeta
        mixin == meta.mixin
        Thrown(err) == Outcome(err, <<>>, rule.nodes, <<>>)
        Done(branch, values, inserted, nodes, nested) ==
            Outcome(NoError, inserted, nodes,
                    <<Call(rule, name, params, branch, meta, values, inserted)>> \o nested)
    IN  IF ~p.ok THEN Thrown(Err("InvalidDefinition", rule.text, ""))
        ELSE IF bad # <<>> THEN Thrown(Err("SingleArg", bad[1], ""))
        ELSE IF name \notin DOMAIN reg /\ name \notin ObjectPrototype
        THEN (IF ~silent THEN Thrown(Err("UndefinedMixin", name, ""))
              ELSE Done("none", <<>>, <<>>, rule.nodes, <<>>))
        ELSE IF mixin.kind \in {"null", "undefined"}
        THEN Thrown(Err("TypeError", name, "name"))
        ELSE IF mixin.name = MIXIN
        THEN (IF ~meta.hasArgs THEN Thrown(Err("TypeError", name, "args"))
              ELSE IF ~mixin.hasNodes THEN Thrown(Err("TypeError", name, "nodes"))
              ELSE LET values == Bind(params, meta.args)
                       cloned == CloneNodes(mixin.nodes)
                       bound == IF Len(meta.args) > 0
                                THEN SubstituteNodes(cloned, values) ELSE cloned
                       filled == IF meta.content
                                 THEN processMixinContent(bound, rule) ELSE bound
                   IN  Done("fragment", values, unwrapSingleArguments(filled, map),
                            rule.nodes, <<>>))
        ELSE IF TypeOf(mixin) = "object"
        THEN Done("object", <<>>, insertObject(rule, mixin.entries, map), rule.nodes, <<>>)
        ELSE IF TypeOf(mixin) = "function"
        THEN LET w == WalkContent(reg, rule.nodes, silent)
                 site == [rule EXCEPT !.nodes = w.nodes]
             IN  IF w.err # NoError THEN Thrown(w.err)
                 ELSE IF mixin.does = "object"
                 THEN Done("function", <<>>, insertObject(site, mixin.entries, map),
                           w.nodes, w.calls)
                 ELSE IF mixin.does = "keep"
                 THEN Done("function", <<>>, <<Rule(<<".", "k">>, w.nodes)>>, <<>>, w.calls)
                 ELSE Done("function", <<>>, <<>>, w.nodes, w.calls)
        ELSE Thrown(Err("WrongType", name, TypeOf(mixin)))

\* rule.walkAtRules(...) of the callable branch: every include / add-mixin in
\* the content is inserted in turn; the walk skips what a call inserted and
\* still enters the children of the at-rule it has just removed
WalkContent(reg, nodes, silent) ==
    IF nodes = <<>> THEN [err |-> NoError, nodes |-> <<>>, calls |-> <<>>]
    ELSE LET n == Head(nodes)
             r == IF IsInvocation(n) THEN insertMixin(reg, n, silent)
                  ELSE Outcome(NoError, <<>>, n.nodes, <<>>)
             inner == IF r.err = NoError THEN WalkContent(reg, r.nodes, silent)
                      ELSE [err |-> r.err, nodes |-> <<>>, calls |-> <<>>]
             here == IF IsInvocation(n) THEN r.inserted
                     ELSE <<[n EXCEPT !.nodes = inner.nodes]>>
             rest == IF inner.err = NoError THEN WalkContent(reg, Tail(nodes), silent)
                     ELSE [err |-> inner.err, nodes |-> <<>>, calls |-> <<>>]
         IN  IF rest.err # NoError
             THEN [err |-> rest.err, nodes |-> <<>>, calls |-> <<>>]
             ELSE [err |-> NoError, nodes |-> here \o rest.nodes,
                   calls |-> r.calls \o inner.calls \o rest.calls]

----------------------------------------------------------------------------
(* The external loader.                                                    *)

MIXINS_GLOB == <<"*", ".", "{", "j", "s", ",", "c", "j", "s", ",", "m", "j", "s", ",",
                 "j", "s", "o", "n", ",", "c", "s", "s", ",", "s", "s", "s", ",",
                 "p", "c", "s", "s", "}">>

STYLE_EXTS == {<<".", "c", "s", "s">>,
               <<".", "p", "c", "s", "s">>,
               <<".", "s", "s", "s">>}

\* extname(i).toLowerCase(), over the capitals the paths are written with
LowerOf(c) ==
    IF c = "C" THEN "c" ELSE IF c = "S" THEN "s" ELSE IF c = "J" THEN "j" ELSE c

ToLowerCase(str) == [i \in 1..Len(str) |-> LowerOf(str[i])]

\* a style sheet the globs match: whether it can be read and parsed, and the
\* @mixin at-rules root.walkAtRules('mixin', ...) finds in it, in order
StyleFile(path, readable, defs) ==
    [path |-> path, loads |-> readable, defs |-> defs,
     value |-> PlainValue("undefined"), children |-> <<>>]

\* a code artifact the globs match: whether require(path) succeeds, what it
\* exports, and the ids of the modules it requires
CodeFile(path, loads, value, children) ==
    [path |-> path, loads |-> loads, defs |-> <<>>,
     value |-> value, children |-> children]

RECURSIVE LastSlash(_, _)
LastSlash(s, i) == IF i = 0 \/ s[i] = "/" THEN i ELSE LastSlash(s, i - 1)

RECURSIVE LastDot(_, _)
LastDot(s, i) == IF i = 0 \/ s[i] \in {".", "/"} THEN i ELSE LastDot(s, i - 1)

\* extname(path): from the last dot of the last segment, if it is not the
\* segment's first character
Extname(path) ==
    LET d == LastDot(path, Len(path))
    IN  IF d <= 1 \/ path[d] = "/" \/ path[d - 1] = "/" THEN <<>>
        ELSE Slice(path, d, Len(path))

\* basename(i, extname(i))
Basename(path) ==
    Slice(path, LastSlash(path, Len(path)) + 1, Len(path) - Len(Extname(path)))

Message(type, file, parent, dir) ==
    [type |-> type, file |-> file, parent |-> parent, dir |-> dir,
     glob |-> IF type = "dir-dependency" THEN MIXINS_GLOB ELSE <<>>]

\* an insertion-ordered table (a JavaScript object used as a map): assigning
\* to a key it has keeps the key's place
RECURSIVE TableSet(_, _, _)
TableSet(table, key, value) ==
    IF table = <<>> THEN <<<<key, value>>>>
    ELSE IF Head(table)[1] = key THEN <<<<key, value>>>> \o Tail(table)
    ELSE <<Head(table)>> \o TableSet(Tail(table), key, value)

\* addMixin(helpers, mixins, atrule, path) for each definition of a style
\* sheet, until one throws
RECURSIVE AddFileMixins(_, _, _)
AddFileMixins(table, defs, path) ==
    IF defs = <<>> THEN [ok |-> TRUE, table |-> table]
    ELSE LET r == MixinRecord(Head(defs), path)
         IN  IF ~r.ok THEN [ok |-> FALSE, table |-> table]
             ELSE AddFileMixins(TableSet(table, r.name, r.meta), Tail(defs), path)

\* processModulesForHotReloadRecursively over the modules a loaded code
\* artifact requires (each of them requires nothing further)
RECURSIVE ModuleMessages(_, _)
ModuleMessages(moduleId, children) ==
    IF children = <<>> THEN <<>>
    ELSE <<Message("dependency", Head(children), moduleId, <<>>)>>
         \o ModuleMessages(moduleId, Tail(children))

\* loadGlobalMixin(helpers, globs) over the matched files: the table it
\* returns (ok = FALSE: it threw instead), and the messages it pushed itself
RECURSIVE loadGlobalMixin(_, _, _)
loadGlobalMixin(matched, table, pushed) ==
    IF matched = <<>> THEN [ok |-> TRUE, table |-> table, pushed |-> pushed]
    ELSE LET f == Head(matched)
         IN  IF ToLowerCase(Extname(f.path)) \in STYLE_EXTS
             THEN (IF ~f.loads THEN [ok |-> FALSE, table |-> table, pushed |-> pushed]
                   ELSE LET a == AddFileMixins(table, f.defs, f.path)
                        IN  IF ~a.ok
                            THEN [ok |-> FALSE, table |-> a.table, pushed |-> pushed]
                            ELSE loadGlobalMixin(Tail(matched), a.table, pushed))
             ELSE IF ~f.loads THEN loadGlobalMixin(Tail(matched), table, pushed)
             ELSE loadGlobalMixin(
                      Tail(matched),
                      TableSet(table, Basename(f.path),
                               [ConfigRecord(f.value) EXCEPT !.file = f.path]),
                      pushed \o ModuleMessages(f.path, f.children))

\* messages that leave the parent option out
GlobalMessagesNoParent(table, parent) ==
    [i \in 1..Len(table) |-> Message("dependency", table[i][2].file, <<>>, <<>>)]

\* addGlobalMixins(helpers, local, global, parent): the messages pushed
RECURSIVE GlobalMessages(_, _)
GlobalMessages(table, parent) ==
    IF table = <<>> THEN <<>>
    ELSE <<Message("dependency", Head(table)[2].file, parent, <<>>)>>
         \o GlobalMessages(Tail(table), parent)

\* addGlobalMixins(helpers, local, global, parent): local[name] = global[name]
RECURSIVE addGlobalMixins(_, _)
addGlobalMixins(local, table) ==
    IF table = <<>> THEN local
    ELSE addGlobalMixins(Register(local, Head(table)[1], Head(table)[2]), Tail(table))

\* Array.from(new Set(mixinsDirs))
RECURSIVE Unique(_, _)
Unique(s, acc) ==
    IF s = <<>> THEN acc
    ELSE Unique(Tail(s), IF \E j \in 1..Len(acc) : acc[j] = Head(s)
                         THEN acc ELSE Append(acc, Head(s)))

\* watchNewMixins(helpers, mixinsDirs): the messages pushed
RECURSIVE DirMessages(_)
DirMessages(dirs) ==
    IF dirs = <<>> THEN <<>>
    ELSE <<Message("dir-dependency", <<>>, <<>>, Head(dirs))>> \o DirMessages(Tail(dirs))

watchNewMixins(mixinsDirs) == DirMessages(Unique(mixinsDirs, <<>>))

\* a loadFrom that forgets the directories
LoadFromFiles(o) == o.mixinsFiles

\* loadFrom of the plugin: one glob per mixinsDir, then the mixinsFiles globs
LoadFrom(o) == o.mixinsDir \o o.mixinsFiles

----------------------------------------------------------------------------
(* The host's walk over the tree (postcss LazyResult): a node is visited   *)
(* when it is not clean; the handler of an at-rule runs before its         *)
(* children are visited; what a handler inserts before the current node is *)
(* passed over by the running pass and visited by the next one.            *)

RECURSIVE NodesAt(_, _)
NodesAt(nodes, path) ==
    IF path = <<>> THEN nodes ELSE NodesAt(nodes[Head(path)].nodes, Tail(path))

Front(s) == SubSeq(s, 1, Len(s) - 1)

Last(s) == s[Len(s)]

\* the children of the container the cursor is in
Here == NodesAt(tree, Front(cursor))

AtNode == Last(cursor) <= Len(Here)

Current == Here[Last(cursor)]

\* the child at `path` replaced by the nodes `repl`; the containers on the way
\* are marked dirty, and so is all of what is inserted
RECURSIVE ReplaceAt(_, _, _)
ReplaceAt(nodes, path, repl) ==
    IF Len(path) = 1
    THEN SubSeq(nodes, 1, path[1] - 1) \o CloneNodes(repl)
         \o SubSeq(nodes, path[1] + 1, Len(nodes))
    ELSE [nodes EXCEPT ![path[1]] =
             [@ EXCEPT !.clean = FALSE,
                       !.nodes = ReplaceAt(nodes[path[1]].nodes, Tail(path), repl)]]

RECURSIVE MarkCleanAt(_, _)
MarkCleanAt(nodes, path) ==
    IF Len(path) = 1 THEN [nodes EXCEPT ![path[1]] = [@ EXCEPT !.clean = TRUE]]
    ELSE [nodes EXCEPT ![path[1]] =
             [@ EXCEPT !.nodes = MarkCleanAt(nodes[path[1]].nodes, Tail(path))]]

Step(path) == Append(Front(path), Last(path) + 1)

Handled(node) == node.type = "atrule" /\ node.name \in {INCLUDE, ADD_MIXIN, MIXIN}

\* the history keeps the first MaxLog events of a run
MaxLog == 12

Logged(history, events) ==
    IF Len(history) + Len(events) <= MaxLog THEN history \o events ELSE history

Registered(name, meta, origin) ==
    [event |-> "register", name |-> name, meta |-> meta, origin |-> origin]

RECURSIVE TableEvents(_, _)
TableEvents(table, origin) ==
    IF table = <<>> THEN <<>>
    ELSE <<Registered(Head(table)[1], Head(table)[2], origin)>>
         \o TableEvents(Tail(table), origin)

RECURSIVE CallEvents(_)
CallEvents(calls) ==
    IF calls = <<>> THEN <<>>
    ELSE <<[event |-> "call", name |-> Head(calls).name, meta |-> Head(calls).meta,
            origin |-> Head(calls).branch, call |-> Head(calls)]>>
         \o CallEvents(Tail(calls))

\* prepare(): a new registry holding the entries of opts.mixins
RECURSIVE ConfigTable(_)
ConfigTable(entries) ==
    IF entries = <<>> THEN <<>>
    ELSE TableSet(ConfigTable(Front(entries)), Last(entries)[1],
                  ConfigRecord(Last(entries)[2]))

Prepare ==
    /\ phase = "new"
    /\ mixins' = addGlobalMixins(<<>>, ConfigTable(opts.mixins))
    /\ log' = Logged(log, TableEvents(ConfigTable(opts.mixins), "config"))
    /\ phase' = "start"
    /\ UNCHANGED <<tree, rootClean, cursor, error, messages, opts, files, input>>

\* Once(root, helpers): the external files are loaded and merged; anything
\* thrown on the way is swallowed
Once ==
    /\ phase = "start"
    /\ LET g == loadGlobalMixin(files, <<>>, <<>>)
       IN  IF Len(LoadFrom(opts)) > 0
           THEN IF g.ok
                THEN /\ mixins' = addGlobalMixins(mixins, g.table)
                     /\ messages' = messages \o g.pushed \o GlobalMessages(g.table, opts.parent)
                     /\ log' = Logged(log, TableEvents(g.table, "external"))
                ELSE /\ messages' = messages \o g.pushed
                     /\ UNCHANGED <<mixins, log>>
           ELSE UNCHANGED <<mixins, messages, log>>
    /\ phase' = "walk"
    /\ rootClean' = TRUE
    /\ cursor' = <<1>>
    /\ UNCHANGED <<tree, error, opts, files, input>>

\* one step of the host's walk that calls no handler of the plugin
Walk ==
    /\ phase = "walk"
    /\ IF ~AtNode
       THEN IF Len(cursor) = 1
            THEN IF rootClean
                 THEN phase' = "exit" /\ UNCHANGED <<cursor, rootClean, tree>>
                 ELSE rootClean' = TRUE /\ cursor' = <<1>> /\ UNCHANGED <<phase, tree>>
            ELSE cursor' = Step(Front(cursor)) /\ UNCHANGED <<phase, rootClean, tree>>
       ELSE IF Current.clean
            THEN cursor' = Step(cursor) /\ UNCHANGED <<phase, rootClean, tree>>
            ELSE /\ ~Handled(Current)
                 /\ tree' = MarkCleanAt(tree, cursor)
                 /\ cursor' = IF Current.hasNodes THEN Append(cursor, 1) ELSE Step(cursor)
                 /\ UNCHANGED <<phase, rootClean>>
    /\ UNCHANGED <<error, mixins, messages, opts, files, log, input>>

\* the handler of @include and of @add-mixin
Invocation(name) ==
    /\ phase = "walk"
    /\ AtNode
    /\ ~Current.clean
    /\ Current.type = "atrule" /\ Current.name = name
    /\ \E r \in {insertMixin(mixins, Current, opts.silent)} :
           IF r.err # NoError
           THEN /\ phase' = "failed"
                /\ error' = r.err
                /\ UNCHANGED <<tree, rootClean, cursor, log>>
           ELSE /\ tree' = ReplaceAt(tree, cursor, r.inserted)
                /\ rootClean' = FALSE
                /\ cursor' = Append(Front(cursor), Last(cursor) + Len(r.inserted))
                /\ log' = Logged(log, CallEvents(r.calls))
                /\ UNCHANGED <<phase, error>>
    /\ UNCHANGED <<mixins, messages, opts, files, input>>

AtRuleInclude == Invocation(INCLUDE)

AtRuleAddMixin == Invocation(ADD_MIXIN)

\* the handler of @mixin: addMixin(helpers, mixins, node); node.remove()
AtRuleMixin ==
    /\ phase = "walk"
    /\ AtNode
    /\ ~Current.clean
    /\ Current.type = "atrule" /\ Current.name = MIXIN
    /\ LET r == MixinRecord(Current, NoFile)
       IN  IF ~r.ok
           THEN /\ phase' = "failed"
                /\ error' = Err("InvalidDefinition", Current.text, "")
                /\ UNCHANGED <<tree, rootClean, mixins, log>>
           ELSE /\ mixins' = Register(mixins, r.name, r.meta)
                /\ tree' = ReplaceAt(tree, cursor, <<>>)
                /\ rootClean' = FALSE
                /\ log' = Logged(log, <<Registered(r.name, r.meta, "document")>>)
                /\ UNCHANGED <<phase, error>>
    /\ UNCHANGED <<cursor, messages, opts, files, input>>

\* OnceExit(_, helpers)
OnceExit ==
    /\ phase = "exit"
    /\ messages' = IF Len(opts.mixinsDir) > 0
                   THEN messages \o watchNewMixins(opts.mixinsDir) ELSE messages
    /\ phase' = "done"
    /\ UNCHANGED <<tree, rootClean, cursor, error, mixins, opts, files, log, input>>

Next ==
    \/ Prepare
    \/ Once
    \/ Walk
    \/ AtRuleInclude
    \/ AtRuleAddMixin
    \/ AtRuleMixin
    \/ OnceExit

----------------------------------------------------------------------------
(* Runs. A run starts from a document, the options and the files the globs *)
(* match; the families below enumerate them.                               *)

NoOpts ==
    [silent |-> FALSE, mixins |-> <<>>, mixinsDir |-> <<>>, mixinsFiles |-> <<>>,
     parent |-> <<>>]

\* the state a run starts in
Start(document, options, matched, built) ==
    /\ tree = document
    /\ opts = options
    /\ files = matched
    /\ input = built
    /\ rootClean = FALSE
    /\ cursor = <<>>
    /\ phase = "new"
    /\ error = NoError
    /\ mixins = <<>>
    /\ messages = <<>>
    /\ log = <<>>

SeqsUpTo(S, n) == UNION {[1..k -> S] : k \in 0..n}

Calls == SelectSeq(log, LAMBDA e : e.event = "call")

----------------------------------------------------------------------------
(* Binding: a definition `@mixin m <formals> { ... }` whose body refers to *)
(* every formal in a declaration of its own, at the top and inside a rule, *)
(* followed by one invocation of m, or of a name nobody registered.        *)

MaxFormals == 2

MaxActuals == 2

FormalNames == <<<<"a">>, <<"b">>, <<"c">>, <<"d">>>>

\* a default as written in the definition, and the value it stands for
DefaultPool ==
    { [text |-> <<>>, value |-> <<>>],
      [text |-> <<"'", "e", "'">>, value |-> <<"e">>] }

\* an actual as written at the invocation: the value it stands for, and for a
\* single-arg token the text between its outer parentheses
Actual(text, value, inner, sa, bad) ==
    [text |-> text, value |-> value, inner |-> inner, sa |-> sa, bad |-> bad]

ActualPool ==
    { Actual(<<"1">>, <<"1">>, <<>>, FALSE, FALSE),
      Actual(<<>>, <<>>, <<>>, FALSE, FALSE),
      Actual(<<"'", "2", "'">>, <<"2">>, <<>>, FALSE, FALSE),
      Actual(<<"s", "i", "n", "g", "l", "e", "-", "a", "r", "g", "(", "1", ",", " ", "2", ")">>, <<"s", "i", "n", "g", "l", "e", "-", "a", "r", "g", "(", "1", ",", " ", "2", ")">>, <<"1", ",", " ", "2">>, TRUE, FALSE),
      Actual(<<"s", "i", "n", "g", "l", "e", "-", "a", "r", "g", "(", "1", ",", " ", "(", "2", ")", ",", " ", "3", ")">>, <<"s", "i", "n", "g", "l", "e", "-", "a", "r", "g", "(", "1", ",", " ", "(", "2", ")", ",", " ", "3", ")">>, <<"1", ",", " ", "(", "2", ")", ",", " ", "3">>, TRUE, FALSE),
      Actual(<<"s", "i", "n", "g", "l", "e", "-", "a", "r", "g", "(", "$", "$", ",", " ", "1", ")">>, <<"s", "i", "n", "g", "l", "e", "-", "a", "r", "g", "(", "$", "$", ",", " ", "1", ")">>, <<"$", "$", ",", " ", "1">>, TRUE, FALSE),
      Actual(<<"s", "i", "n", "g", "l", "e", "-", "a", "r", "g", " ", "1">>, <<"s", "i", "n", "g", "l", "e", "-", "a", "r", "g", " ", "1">>, <<>>, FALSE, TRUE) }

FormalText(i, default) ==
    <<"$">> \o FormalNames[i]
    \o (IF default.text = <<>> THEN <<>> ELSE <<":", " ">> \o default.text)

RefDecl(i) == Decl(FormalNames[i], <<"$">> \o FormalNames[i])

BindDefinition(defaults) ==
    LET n == Len(defaults)
        decls == [i \in 1..n |-> RefDecl(i)]
    IN  AtRule(MIXIN,
               <<"m">> \o (IF n = 0 THEN <<>> ELSE <<" ">>)
               \o Join([i \in 1..n |-> FormalText(i, defaults[i])], <<",", " ">>),
               decls \o <<Rule(<<".", "s">>, decls)>>)

BindSite(keyword, name, actuals) ==
    AtRuleNoBody(keyword,
                 name \o (IF actuals = <<>> THEN <<>> ELSE <<" ">>)
                 \o Join([i \in 1..Len(actuals) |-> actuals[i].text], <<",", " ">>))

\* the first actual is never the empty one: the tokenizer drops an empty text
\* before the first comma, so that the actuals would not be those listed
InitBind ==
    \E defaults \in SeqsUpTo(DefaultPool, MaxFormals),
       actuals \in SeqsUpTo(ActualPool, MaxActuals),
       keyword \in {INCLUDE, ADD_MIXIN},
       name \in {<<"m">>, <<"u">>, <<"c", "o", "n", "s", "t", "r", "u", "c", "t", "o", "r">>},
       silent \in BOOLEAN :
        /\ actuals # <<>> => actuals[1].text # <<>>
        /\ Start(<<BindDefinition(defaults), BindSite(keyword, name, actuals)>>,
                 [NoOpts EXCEPT !.silent = silent], <<>>,
                 [family |-> "bind", defaults |-> defaults, actuals |-> actuals,
                  name |-> name])

SpecBind == InitBind /\ [][Next]_vars

----------------------------------------------------------------------------
(* Claims on binding (SpecBind).                                           *)

InBind == input.family = "bind"

FragmentCall(k) == log[k].event = "call" /\ log[k].origin = "fragment"

FormalsOf(defaults) == {FormalNames[i] : i \in 1..Len(defaults)}

\* C1 as stated: in every expansion of the tree-fragment macro, formal i is
\* bound to the i-th actual if the invocation has one, else to its declared
\* default (empty if none), and only the formals are bound.
C1_BindsActualIfPresent ==
    InBind =>
        \A k \in 1..Len(log) : FragmentCall(k) =>
            LET values == log[k].call.values
            IN  /\ DOMAIN values = FormalsOf(input.defaults)
                /\ \A i \in 1..Len(input.defaults) :
                      values[FormalNames[i]] =
                          IF i <= Len(input.actuals) THEN input.actuals[i].value
                          ELSE input.defaults[i].value

\* C1 amended: formal i is bound to the i-th actual if the invocation has one
\* and it is not empty, else to its declared default (empty if none); actuals
\* past the last formal bind nothing.
C1_BindsNonEmptyActual ==
    InBind =>
        \A k \in 1..Len(log) : FragmentCall(k) =>
            LET values == log[k].call.values
            IN  /\ DOMAIN values = FormalsOf(input.defaults)
                /\ \A i \in 1..Len(input.defaults) :
                      values[FormalNames[i]] =
                          IF i <= Len(input.actuals) /\ input.actuals[i].value # <<>>
                          THEN input.actuals[i].value
                          ELSE input.defaults[i].value

\* an expansion whose second actual is written empty and whose second formal
\* declares a default
C1_Witness ==
    /\ InBind
    /\ \E k \in 1..Len(log) : FragmentCall(k)
    /\ Len(input.actuals) >= 2 /\ Len(input.defaults) >= 2
    /\ input.actuals[2].value = <<>>
    /\ input.defaults[2].value # <<>>

\* C2 as stated: a single-arg(...) actual is one positional actual whatever
\* commas it holds, the token after it is the next actual, and the declarations
\* referring to the formal it is bound to hold exactly its inner text.
C2_SingleArgIsOneActual ==
    InBind =>
        \A k \in 1..Len(log) : FragmentCall(k) =>
            LET call == log[k].call
                n == Len(input.defaults)
            IN  \A i \in 1..Len(input.actuals) : input.actuals[i].sa =>
                    /\ Len(call.params) = Len(input.actuals)
                    /\ call.params[i] = input.actuals[i].text
                    /\ i < Len(input.actuals) =>
                           call.params[i + 1] = input.actuals[i + 1].value
                    /\ i <= n =>
                           /\ call.inserted[i].value = input.actuals[i].inner
                           /\ call.inserted[n + 1].nodes[i].value = input.actuals[i].inner

\* the same, for the single-arg tokens whose inner text holds no $
C2_SingleArgWithoutDollar ==
    InBind =>
        \A k \in 1..Len(log) : FragmentCall(k) =>
            LET call == log[k].call
                n == Len(input.defaults)
            IN  \A i \in 1..Len(input.actuals) :
                    input.actuals[i].sa /\ ~Includes(input.actuals[i].inner, <<"$">>) =>
                        /\ Len(call.params) = Len(input.actuals)
                        /\ call.params[i] = input.actuals[i].text
                        /\ i < Len(input.actuals) =>
                               call.params[i + 1] = input.actuals[i + 1].value
                        /\ i <= n =>
                               /\ call.inserted[i].value = input.actuals[i].inner
                               /\ call.inserted[n + 1].nodes[i].value = input.actuals[i].inner

UnknownSite == InBind /\ input.name # <<"m">>

BadActual == \E i \in 1..Len(input.actuals) : input.actuals[i].bad

\* what the claim says of an invocation of an unregistered name
UnknownOutcome ==
    IF ~opts.silent
    THEN /\ phase # "done"
         /\ phase = "failed" => error = Err("UndefinedMixin", input.name, "")
    ELSE /\ phase # "failed"
         /\ phase = "done" => tree = <<>>

\* C5 as stated: an invocation of an unregistered name fails with 'Undefined
\* mixin <name>' and inserts nothing when silent is unset; when silent is set
\* the site is removed, nothing is inserted and no error is raised, whatever
\* the argument string is.
C5_UnknownWhateverArguments == UnknownSite => UnknownOutcome

\* C5 for the argument strings whose single-arg actuals are all wrapped in
\* brackets (a malformed one fails with the single-arg error before the
\* registry is looked at, silent or not): an unregistered name fails with
\* 'Undefined mixin <name>' when silent is unset and is removed without error
\* when silent is set.
C5_UnknownWellFormedArguments ==
    UnknownSite =>
        IF BadActual
        THEN /\ phase # "done"
             /\ phase = "failed" => error.kind = "SingleArg"
        ELSE UnknownOutcome

\* the same, for the unregistered names that a plain object does not inherit
C5_UnknownOwnName ==
    UnknownSite /\ input.name \notin ObjectPrototype =>
        IF BadActual
        THEN /\ phase # "done"
             /\ phase = "failed" => error.kind = "SingleArg"
        ELSE UnknownOutcome

\* a silent run that removed an unknown invocation carrying actuals
C5_Witness ==
    /\ UnknownSite /\ opts.silent /\ phase = "done"
    /\ Len(input.actuals) = MaxActuals
    /\ tree = <<>>

----------------------------------------------------------------------------
(* Content: a macro whose body holds placeholders, at the top and nested,  *)
(* invoked at a site that carries children. The macro is a @mixin          *)
(* definition, an object of the configuration or a callable returning that *)
(* object.                                                                 *)

MaxBody == 2

Placeholder == AtRuleNoBody(MIXIN_CONTENT, <<>>)

BodyPool ==
    { Decl(<<"a">>, <<"$", "a">>),
      Placeholder,
      Rule(<<".", "r">>, <<Placeholder>>),
      Rule(<<".", "t">>, <<Decl(<<"b">>, <<"2">>), Placeholder>>),
      AtRule(<<"m", "e", "d", "i", "a">>, <<"x">>,
             <<Rule(<<".", "q">>, <<Placeholder, Decl(<<"b">>, <<"$", "a">>)>>)>>) }

ChildrenPool ==
    { <<>>,
      <<Decl(<<"c">>, <<"$", "a">>)>>,
      <<Decl(<<"c">>, <<"$", "a">>), Rule(<<".", "n">>, <<Decl(<<"d">>, <<"3">>)>>)>>,
      <<Placeholder>>,
      <<AtRuleNoBody(INCLUDE, <<"n">>), Decl(<<"c">>, <<"4">>)>> }

\* the nested-data object that postcss-js parses to these nodes
RECURSIVE ToEntries(_)
ToEntries(nodes) ==
    IF nodes = <<>> THEN <<>>
    ELSE LET n == Head(nodes)
             e == IF n.type = "decl" THEN StrEntry(n.text, n.value)
                  ELSE IF n.type = "rule" THEN ObjEntry(n.text, ToEntries(n.nodes))
                  ELSE ObjEntry(<<"@">> \o n.name
                                \o (IF n.text = <<>> THEN <<>> ELSE <<" ">> \o n.text),
                                ToEntries(n.nodes))
         IN  <<e>> \o ToEntries(Tail(nodes))

\* the keys of an object are distinct
DistinctKeys(nodes) == \A i, j \in 1..Len(nodes) : nodes[i] = nodes[j] => i = j

Helper == AtRule(MIXIN, <<"n">>, <<Decl(<<"d">>, <<"1">>)>>)

ContentSite(keyword, name, hasBody, children) ==
    IF hasBody THEN AtRule(keyword, name, children) ELSE AtRuleNoBody(keyword, name)

InitContent ==
    \E body \in SeqsUpTo(BodyPool, MaxBody),
       children \in ChildrenPool,
       hasBody \in BOOLEAN,
       keyword \in {INCLUDE, ADD_MIXIN},
       kind \in {"fragment", "object", "function"} :
        /\ ~hasBody => children = <<>>
        /\ kind # "fragment" => DistinctKeys(body)
        /\ LET built == [family |-> "content", kind |-> kind, body |-> body,
                         children |-> children, hasBody |-> hasBody]
           IN  IF kind = "fragment"
               THEN Start(<<Helper, AtRule(MIXIN, <<"m", " ", "$", "a">>, body),
                            ContentSite(keyword, <<"m", " ", "1">>, hasBody, children)>>,
                          NoOpts, <<>>, built)
               ELSE Start(<<Helper, ContentSite(keyword, <<"o">>, hasBody, children)>>,
                          [NoOpts EXCEPT !.mixins =
                              << <<<<"o">>,
                                   IF kind = "object"
                                   THEN ObjectValue(Undefined, ToEntries(body))
                                   ELSE FunctionValue(<<"o">>, "object", ToEntries(body))>> >>],
                          <<>>, built)

SpecContent == InitContent /\ [][Next]_vars

----------------------------------------------------------------------------
(* Claims on content injection (SpecContent).                              *)

InContent == input.family = "content"

\* a fragment written out node by node, a block as an opening token, its
\* children and a closing token, a placeholder as a token of its own
RECURSIVE Tokens(_)
Tokens(nodes) ==
    IF nodes = <<>> THEN <<>>
    ELSE LET n == Head(nodes)
             Token(tok) == [tok |-> tok, type |-> n.type, name |-> n.name,
                            text |-> n.text, value |-> n.value]
             close == [tok |-> "close", type |-> "", name |-> <<>>, text |-> <<>>,
                       value |-> <<>>]
             here == IF IsPlaceholder(n)
                     THEN <<[tok |-> "content", type |-> "", name |-> <<>>,
                             text |-> <<>>, value |-> <<>>]>>
                     ELSE IF n.hasNodes
                     THEN <<Token("open")>> \o Tokens(n.nodes) \o <<close>>
                     ELSE <<Token("leaf")>>
         IN  here \o Tokens(Tail(nodes))

\* the written fragment with every placeholder token replaced by filler
RECURSIVE Splice(_, _)
Splice(tokens, filler) ==
    IF tokens = <<>> THEN <<>>
    ELSE (IF Head(tokens).tok = "content" THEN filler ELSE <<Head(tokens)>>)
         \o Splice(Tail(tokens), filler)

RECURSIVE CountContent(_)
CountContent(tokens) ==
    IF tokens = <<>> THEN 0
    ELSE (IF Head(tokens).tok = "content" THEN 1 ELSE 0) + CountContent(Tail(tokens))

\* the body of the macro a call expanded, as it is when content is injected
BodyOf(call) ==
    IF call.branch = "fragment"
    THEN (IF Len(call.meta.args) > 0
          THEN SubstituteNodes(CloneNodes(call.meta.mixin.nodes), call.values)
          ELSE CloneNodes(call.meta.mixin.nodes))
    ELSE parse(call.meta.mixin.entries)

ContentCall(k) ==
    /\ log[k].event = "call"
    /\ \/ log[k].origin \in {"fragment", "object"}
       \/ log[k].origin = "function" /\ ~HasInvocation(log[k].call.rule.nodes)

\* C3: the expansion of a body with k placeholders, at any depth, at a site
\* with n children is the body with each placeholder replaced, where it
\* stands, by a full copy of the n children (by nothing when n = 0, the rest
\* of the body unchanged), and the site's children are as they were written.
C3_ContentInjection ==
    InContent =>
        \A k \in 1..Len(log) : ContentCall(k) =>
            LET call == log[k].call
                body == Tokens(BodyOf(call))
                children == Tokens(call.rule.nodes)
                out == Tokens(call.inserted)
            IN  /\ out = Splice(body, children)
                /\ Len(out) = Len(body) - CountContent(body)
                              + CountContent(body) * Len(children)
                /\ call.rule.nodes = <<>> =>
                       out = SelectSeq(body, LAMBDA t : t.tok # "content")
                /\ call.name \in {<<"m">>, <<"o">>} =>
                       /\ children = Tokens(input.children)
                       /\ CountContent(body) = CountPlaceholders(input.body)

\* a body with two placeholders, one of them nested, expanded at a site with
\* two children
C3_Witness ==
    /\ InContent /\ phase = "done"
    /\ CountPlaceholders(input.body) = 2
    /\ \E i \in 1..Len(input.body) : input.body[i].type # "atrule"
                                      /\ HasPlaceholder(input.body[i].nodes)
    /\ Len(input.children) = 2
    /\ \E k \in 1..Len(log) : ContentCall(k) /\ log[k].call.name \in {<<"m">>, <<"o">>}

----------------------------------------------------------------------------
(* Runs over documents: definitions, redefinitions, a definition whose     *)
(* body invokes another macro, one that invokes itself, and invocations at *)
(* the top and inside a rule, under a configuration and external files.    *)

\* the names the invocations of a fragment name, at any depth
RECURSIVE InvokedNames(_)
InvokedNames(nodes) ==
    UNION { (IF IsInvocation(nodes[i]) THEN {parseMixin(nodes[i].text).name} ELSE {})
            \cup InvokedNames(nodes[i].nodes) : i \in 1..Len(nodes) }

MacroNames == {<<"a">>, <<"b">>, <<"s">>, <<"o">>}

\* macro x invokes macro y: a definition of x in the document, or the object
\* the configuration gives (or returns) for x, holds an invocation of y
Invokes(document, env, x, y) ==
    \/ \E i \in 1..Len(document) :
          /\ document[i].name = MIXIN
          /\ parseMixin(document[i].text).name = x
          /\ y \in InvokedNames(document[i].nodes)
    \/ \E i \in 1..Len(env.mixins) :
          /\ env.mixins[i][1] = x
          /\ y \in InvokedNames(parse(env.mixins[i][2].entries))

\* the macro-invokes-macro graph has no cycle: no chain of invocations, which
\* needs at most one step per name, leads from a macro back to itself
Acyclic(document, env) ==
    LET step == [x \in MacroNames |-> {y \in MacroNames : Invokes(document, env, x, y)}]
        Next1(S) == S \cup UNION {step[x] : x \in S}
    IN  \A x \in MacroNames : x \notin Next1(Next1(Next1(step[x])))

\* the bodies a macro name can expand to in a run
Bodies(document, env, x) ==
    { document[i].nodes :
        i \in {j \in 1..Len(document) :
                  document[j].name = MIXIN /\ parseMixin(document[j].text).name = x} }
    \cup { parse(env.mixins[i][2].entries) :
              i \in {j \in 1..Len(env.mixins) : env.mixins[j][1] = x} }
    \cup { parse(env.files[i].value.entries) :
              i \in {j \in 1..Len(env.files) : Basename(env.files[j].path) = x} }

Max(S) == IF S = {} THEN 0 ELSE CHOOSE m \in S : \A k \in S : k <= m

\* the number of handler calls the invocation of a macro can lead to, the
\* bodies followed n levels down
RECURSIVE Weight(_, _, _, _)
RECURSIVE InvocationsWeight(_, _, _, _)
Weight(document, env, x, n) ==
    IF n = 0 THEN 1
    ELSE 1 + Max({InvocationsWeight(document, env, b, n - 1) : b \in Bodies(document, env, x)})

InvocationsWeight(document, env, nodes, n) ==
    IF nodes = <<>> THEN 0
    ELSE (IF IsInvocation(Head(nodes))
          THEN Weight(document, env, parseMixin(Head(nodes).text).name, n) ELSE 0)
         + InvocationsWeight(document, env, Head(nodes).nodes, n)
         + InvocationsWeight(document, env, Tail(nodes), n)

MaxDoc == 3

DocPool ==
    { AtRule(MIXIN, <<"a">>, <<Decl(<<"x">>, <<"1">>)>>),
      AtRule(MIXIN, <<"a">>, <<Decl(<<"x">>, <<"2">>)>>),
      AtRule(MIXIN, <<"b">>, <<Rule(<<".", "i">>, <<AtRuleNoBody(INCLUDE, <<"a">>)>>)>>),
      AtRule(MIXIN, <<"s">>, <<AtRuleNoBody(INCLUDE, <<"s">>)>>),
      AtRuleNoBody(INCLUDE, <<"a">>),
      Rule(<<".", "r">>, <<AtRuleNoBody(ADD_MIXIN, <<"b">>)>>),
      AtRuleNoBody(INCLUDE, <<"o">>),
      AtRuleNoBody(ADD_MIXIN, <<"s">>) }

\* the configurations and the external files of the runs
EnvPool ==
    { [mixins |-> <<>>, mixinsDir |-> <<>>, files |-> <<>>],
      [mixins |-> << <<<<"o">>, ObjectValue(Undefined,
                                  <<ObjEntry(<<"@", "i", "n", "c", "l", "u", "d", "e", " ", "b">>, <<>>)>>)>> >>,
       mixinsDir |-> <<>>, files |-> <<>>],
      [mixins |-> << <<<<"a">>, ObjectValue(Undefined, <<StrEntry(<<"y">>, <<"0">>)>>)>>,
                     <<<<"o">>, FunctionValue(<<"o">>, "object",
                                  <<ObjEntry(<<"@", "i", "n", "c", "l", "u", "d", "e", " ", "a">>, <<>>)>>)>> >>,
       mixinsDir |-> <<<<"d">>>>,
       files |-> <<CodeFile(<<"d", "/", "a", ".", "j", "s">>, TRUE,
                            ObjectValue(Undefined, <<StrEntry(<<"z">>, <<"9">>)>>),
                            <<>>)>>] }

InitRun ==
    \E document \in SeqsUpTo(DocPool, MaxDoc), env \in EnvPool :
        Start(document,
              [NoOpts EXCEPT !.mixins = env.mixins, !.mixinsDir = env.mixinsDir],
              env.files,
              [family |-> "run", document |-> document, env |-> env,
               acyclic |-> Acyclic(document, env),
               weight |-> [x \in MacroNames |->
                              Weight(document, env, x, Cardinality(MacroNames))]])

SpecRun == InitRun /\ [][Next]_vars

----------------------------------------------------------------------------
(* Claims on runs (SpecRun, FairRun).                                      *)

InRun == input.family = "run"

Unregistered == phase = "failed" /\ error.kind = "UndefinedMixin"

\* what is left of a run, as a tuple that is compared from the left: the
\* phases to go, the handler calls the tree can still lead to, the nodes the
\* walk has not visited, whether another pass is due, and the positions the
\* cursor has ahead of it in the containers it is in
PhaseRank ==
    IF phase = "new" THEN 5 ELSE IF phase = "start" THEN 4
    ELSE IF phase = "walk" THEN 3 ELSE IF phase = "exit" THEN 2
    ELSE IF phase = "done" THEN 1 ELSE 0

RECURSIVE TreeWeight(_)
TreeWeight(nodes) ==
    IF nodes = <<>> THEN 0
    ELSE LET n == Head(nodes)
         IN  (IF IsInvocation(n)
              THEN (IF parseMixin(n.text).name \in DOMAIN input.weight
                    THEN input.weight[parseMixin(n.text).name] ELSE 1)
              ELSE IF n.type = "atrule" /\ n.name = MIXIN THEN 1 ELSE 0)
             + TreeWeight(n.nodes) + TreeWeight(Tail(nodes))

RECURSIVE Unvisited(_)
Unvisited(nodes) ==
    IF nodes = <<>> THEN 0
    ELSE (IF Head(nodes).clean THEN 0 ELSE 1)
         + Unvisited(Head(nodes).nodes) + Unvisited(Tail(nodes))

RECURSIVE Ahead(_)
Ahead(path) ==
    IF path = <<>> THEN 0
    ELSE Len(NodesAt(tree, Front(path))) + 1 - Last(path) + Ahead(Front(path))

Left == <<PhaseRank, TreeWeight(tree), Unvisited(tree),
          IF rootClean THEN 0 ELSE 1, Ahead(cursor)>>

LexLess(m, n) ==
    \E i \in 1..Len(m) : m[i] < n[i] /\ \A j \in 1..(i - 1) : m[j] = n[j]

\* C4: when the macro-invokes-macro graph is acyclic the run terminates
\* (every step leaves strictly less of the run to do, in a well-founded
\* order), it stops early only at an invocation of an unregistered name, and
\* a finished run has no invocation site left in the tree: what an expansion
\* reveals, from a body, an object or a callable's object, is expanded in the
\* same run at any depth.
C4_NestedExpansion ==
    /\ [][InRun /\ input.acyclic => LexLess(Left', Left)]_vars
    /\ [](InRun /\ phase = "failed" => error.kind = "UndefinedMixin")
    /\ [](InRun /\ phase = "done" => ~HasInvocation(tree))

\* the same measure, for every run: it fails for the macro that invokes itself
C4_EveryRunEnds == [][InRun => LexLess(Left', Left)]_vars

CallNames == {log[k].name : k \in {j \in 1..Len(log) : log[j].event = "call"}}

\* a finished run that expanded o, the b its object revealed and the a that
\* b's body revealed inside a rule
C4_Witness ==
    /\ InRun /\ phase = "done"
    /\ {<<"o">>, <<"b">>, <<"a">>} \subseteq CallNames
    /\ input.env.mixins # <<>> /\ input.env.mixins[1][2].kind = "object"
    /\ ~HasInvocation(tree)

IsRegistration(k) == log[k].event = "register"

IsCall(k) == log[k].event = "call" /\ log[k].origin # "none"

Rank(origin) ==
    IF origin = "config" THEN 1 ELSE IF origin = "external" THEN 2 ELSE 3

\* the last registration of a name before position k of the history (0: none)
LastBefore(name, k) ==
    LET at == {j \in 1..(k - 1) : IsRegistration(j) /\ log[j].name = name}
    IN  IF at = {} THEN 0 ELSE CHOOSE j \in at : \A i \in at : i <= j

\* the names of the definitions of the document, in document order
DefinitionNames ==
    LET defs == SelectSeq(input.document, LAMBDA n : n.name = MIXIN)
    IN  [i \in 1..Len(defs) |-> parseMixin(defs[i].text).name]

DocumentRegistrations ==
    LET regs == SelectSeq(log, LAMBDA e : e.event = "register" /\ e.origin = "document")
    IN  [i \in 1..Len(regs) |-> regs[i].name]

\* C6: registrations come in the order configuration, external, in-document
\* (document order); the registry maps each name to the record of the latest
\* registration of that name, whatever its kind; an invocation expands with
\* the record registered latest under its name before it is handled.
C6_LastRegistrationWins ==
    InRun /\ Len(log) < MaxLog =>
        /\ \A i, j \in 1..Len(log) :
               IsRegistration(i) /\ IsRegistration(j) /\ i < j =>
                   Rank(log[i].origin) <= Rank(log[j].origin)
        /\ Len(DocumentRegistrations) <= Len(DefinitionNames)
        /\ DocumentRegistrations = SubSeq(DefinitionNames, 1, Len(DocumentRegistrations))
        /\ DOMAIN mixins = {log[j].name : j \in {i \in 1..Len(log) : IsRegistration(i)}}
        /\ \A n \in DOMAIN mixins : mixins[n] = log[LastBefore(n, Len(log) + 1)].meta
        /\ \A k \in 1..Len(log) : IsCall(k) /\ log[k].name \notin ObjectPrototype =>
               /\ LastBefore(log[k].name, k) > 0
               /\ log[k].meta = log[LastBefore(log[k].name, k)].meta

\* a name registered by the configuration, by an external file and by the
\* document, then invoked: the invocation expanded the document's definition
C6_Witness ==
    /\ InRun
    /\ \A o \in {"config", "external", "document"} :
          \E j \in 1..Len(log) : IsRegistration(j) /\ log[j].name = <<"a">>
                                 /\ log[j].origin = o
    /\ \E k \in 1..Len(log) : IsCall(k) /\ log[k].name = <<"a">>
                              /\ log[k].origin = "fragment"

RECURSIVE HasDefinition(_)
HasDefinition(nodes) ==
    \E i \in 1..Len(nodes) :
        \/ nodes[i].type = "atrule" /\ nodes[i].name = MIXIN
        \/ HasDefinition(nodes[i].nodes)

----------------------------------------------------------------------------
(* Loading: the files the globs match, in the order they are matched: code *)
(* artifacts (two of one base name, one that requires another module, one  *)
(* that fails to load) and style sheets (with one, two and no definition,  *)
(* unreadable, and with a malformed definition after a good one).          *)

MaxFiles == 2

Exports(prop, value) == ObjectValue(Undefined, <<StrEntry(prop, value)>>)

FilePool ==
    { CodeFile(<<"d", "/", "a", ".", "j", "s">>, TRUE, Exports(<<"z">>, <<"9">>), <<>>),
      CodeFile(<<"d", "/", "a", ".", "j", "s", "o", "n">>, TRUE, Exports(<<"z">>, <<"8">>), <<>>),
      CodeFile(<<"d", "/", "f", ".", "j", "s">>, TRUE, Exports(<<"g">>, <<"5">>), <<<<"d", "/", "g", ".", "j", "s">>>>),
      CodeFile(<<"d", "/", "x", ".", "j", "s">>, FALSE, PlainValue("undefined"), <<>>),
      StyleFile(<<"d", "/", "c", ".", "C", "S", "S">>, TRUE, <<AtRule(MIXIN, <<"c">>, <<Decl(<<"c">>, <<"3">>)>>)>>),
      StyleFile(<<"d", "/", "d", ".", "c", "s", "s">>, TRUE, <<AtRule(MIXIN, <<"d">>, <<Decl(<<"d">>, <<"4">>)>>),
                               AtRule(MIXIN, <<"a">>, <<Decl(<<"a">>, <<"1">>)>>)>>),
      StyleFile(<<"d", "/", "e", ".", "p", "c", "s", "s">>, TRUE, <<>>),
      StyleFile(<<"d", "/", "u", ".", "c", "s", "s">>, FALSE, <<>>),
      StyleFile(<<"d", "/", "m", ".", "s", "s", "s">>, TRUE, <<AtRule(MIXIN, <<"m">>, <<Decl(<<"m">>, <<"6">>)>>),
                               AtRule(MIXIN, <<>>, <<>>)>>) }

DirsPool == { <<>>, <<<<"d">>>>, <<<<"d">>, <<"d">>>>, <<<<"d">>, <<"e">>>> }

\* a document that invokes what the files may define and defines a macro of
\* its own
LoadDocument ==
    << Rule(<<".", "r">>, <<AtRuleNoBody(INCLUDE, <<"a">>)>>),
       AtRule(MIXIN, <<"k">>, <<Decl(<<"k">>, <<"1">>)>>),
       AtRuleNoBody(ADD_MIXIN, <<"k">>) >>

InitLoad ==
    \E matched \in SeqsUpTo(FilePool, MaxFiles),
       dirs \in DirsPool,
       globs \in {<<>>, <<<<"d", "/", "*">>>>},
       parent \in {<<>>, <<"p">>} :
        /\ \A i, j \in 1..Len(matched) : matched[i] = matched[j] => i = j
        /\ Start(LoadDocument,
                 [NoOpts EXCEPT !.silent = TRUE, !.mixinsDir = dirs,
                                !.mixinsFiles = globs, !.parent = parent],
                 matched,
                 [family |-> "load", matched |-> matched, dirs |-> dirs,
                  globs |-> globs, parent |-> parent])

SpecLoad == InitLoad /\ [][Next]_vars

----------------------------------------------------------------------------
(* Claims on loading (SpecLoad).                                           *)

InLoad == input.family = "load"

\* there is a glob to load from, and the Once hook has run
Loading == Len(input.dirs) + Len(input.globs) > 0

Loaded == phase \notin {"new", "start"}

IsStyle(f) == ToLowerCase(Extname(f.path)) \in STYLE_EXTS

\* the file cannot be loaded: unreadable or unparsable, a definition without a
\* name, a code artifact whose require throws
Fails(f) ==
    \/ ~f.loads
    \/ IsStyle(f) /\ \E i \in 1..Len(f.defs) : ~parseMixin(f.defs[i].text).ok

\* the names a file defines
Defines(f) ==
    IF IsStyle(f)
    THEN {parseMixin(f.defs[i].text).name :
            i \in {j \in 1..Len(f.defs) : parseMixin(f.defs[j].text).ok}}
    ELSE IF f.loads THEN {Basename(f.path)} ELSE {}

Matched == input.matched

\* a style sheet fails: the load is given up as a whole
Aborted == \E i \in 1..Len(Matched) : IsStyle(Matched[i]) /\ Fails(Matched[i])

\* the last of the given files that defines the name
Winner(n, among) == CHOOSE i \in among : /\ n \in Defines(Matched[i])
                                         /\ \A j \in among : n \in Defines(Matched[j]) => j <= i

\* how many messages of a type, and of a file under a parent, were pushed
OfType(type) == Cardinality({i \in 1..Len(messages) : messages[i].type = type})

Dependencies(file, parent) ==
    Cardinality({i \in 1..Len(messages) : /\ messages[i].type = "dependency"
                                          /\ messages[i].file = file
                                          /\ messages[i].parent = parent})

DirDependencies(dir) ==
    Cardinality({i \in 1..Len(messages) :
                    messages[i] = [type |-> "dir-dependency", file |-> <<>>,
                                   parent |-> <<>>, dir |-> dir, glob |-> MIXINS_GLOB]})

ExternalEvents == {j \in 1..Len(log) : log[j].event = "register" /\ log[j].origin = "external"}

DirsOk ==
    /\ OfType("dir-dependency") =
           IF phase = "done" THEN Cardinality({input.dirs[i] : i \in 1..Len(input.dirs)}) ELSE 0
    /\ phase = "done" =>
           \A i \in 1..Len(input.dirs) :
               DirDependencies(input.dirs[i]) = 1

C10_FailuresIsolated ==
    InLoad /\ Loaded /\ Loading =>
        LET good == {i \in 1..Len(Matched) : ~Fails(Matched[i])}
        IN  /\ phase # "failed"
            /\ \A i \in good : \A n \in Defines(Matched[i]) :
                   Winner(n, good) = i =>
                       /\ \E j \in ExternalEvents : /\ log[j].name = n
                                                    /\ log[j].meta.file = Matched[i].path
                       /\ Dependencies(Matched[i].path, input.parent) >= 1

\* the same, when the files that fail are code artifacts only
C10_CodeArtifactsIsolated ==
    InLoad /\ Loaded /\ Loading /\ ~Aborted =>
        LET good == {i \in 1..Len(Matched) : ~Fails(Matched[i])}
        IN  /\ phase # "failed"
            /\ \A i \in good : \A n \in Defines(Matched[i]) :
                   Winner(n, good) = i =>
                       /\ \E j \in ExternalEvents : /\ log[j].name = n
                                                    /\ log[j].meta.file = Matched[i].path
                       /\ Dependencies(Matched[i].path, input.parent) >= 1

\* a run that went on after a style sheet failed to load next to a code
\* artifact that loads
C10_Witness ==
    /\ InLoad /\ phase = "done" /\ Loading /\ Aborted
    /\ \E i \in 1..Len(Matched) : ~IsStyle(Matched[i]) /\ ~Fails(Matched[i])

----------------------------------------------------------------------------
(* Dispatch: one macro v, registered by a @mixin definition of the         *)
(* document or of a style sheet, or as a value of the configuration or of  *)
(* a code artifact, and one invocation of it inside a rule.                *)

Colour == <<StrEntry(<<"c">>, <<"1">>)>>

\* the values a configuration or a code artifact can hold
ValuePool ==
    { ObjectValue(Undefined, Colour),
      ObjectValue(MIXIN, <<StrEntry(<<"n", "a", "m", "e">>, MIXIN)>>),
      FunctionValue(<<"f">>, "object", Colour),
      FunctionValue(<<"f">>, "none", <<>>),
      FunctionValue(MIXIN, "object", Colour),
      PlainValue("number"),
      PlainValue("string"),
      PlainValue("boolean"),
      PlainValue("null"),
      PlainValue("undefined") }

\* the actuals of the site: none, or a bare one and a quoted one
DispatchActuals ==
    { <<>>,
      << Actual(<<"1">>, <<"1">>, <<>>, FALSE, FALSE),
         Actual(<<"'", "2", "'">>, <<"2">>, <<>>, FALSE, FALSE) >> }

DispatchDefinition == AtRule(MIXIN, <<"v">>, <<Decl(<<"c">>, <<"1">>)>>)

DispatchDocument(via, site) ==
    (IF via = "document" THEN <<DispatchDefinition>> ELSE <<>>)
    \o << Helper, Rule(<<".", "r">>, <<Decl(<<"e">>, <<"1">>), site>>) >>

InitDispatch ==
    \E via \in {"document", "style", "config", "code"},
       value \in ValuePool,
       actuals \in DispatchActuals,
       keyword \in {INCLUDE, ADD_MIXIN} :
        /\ via \in {"document", "style"} => value = PlainValue("undefined")
        /\ LET site == BindSite(keyword, <<"v">>, actuals)
               built == [family |-> "dispatch", via |-> via, value |-> value,
                         actuals |-> actuals, site |-> site]
           IN  Start(DispatchDocument(via, site),
                     [NoOpts EXCEPT
                         !.mixins = IF via = "config" THEN << <<<<"v">>, value>> >> ELSE <<>>,
                         !.mixinsFiles = IF via \in {"style", "code"}
                                         THEN <<<<"d", "/", "*">>>> ELSE <<>>],
                     IF via = "style"
                     THEN <<StyleFile(<<"d", "/", "v", ".", "c", "s", "s">>, TRUE,
                                      <<DispatchDefinition>>)>>
                     ELSE IF via = "code"
                     THEN <<CodeFile(<<"d", "/", "v", ".", "j", "s">>, TRUE, value, <<>>)>>
                     ELSE <<>>,
                     built)

SpecDispatch == InitDispatch /\ [][Next]_vars

----------------------------------------------------------------------------
(* Claims on dispatch (SpecDispatch).                                      *)

InDispatch == input.family = "dispatch"

\* the form the record of v was registered with
Form ==
    IF input.via \in {"document", "style"} THEN "fragment"
    ELSE IF input.value.kind \in {"object", "function"} THEN input.value.kind
    ELSE "other"

\* the run is over
Ended == phase \in {"failed", "done"}

\* the calls of insertMixin the run has made
CallsMade == {k \in 1..Len(log) : log[k].event = "call"}

\* what the claim says of a run that is over
DispatchedOnForm ==
    /\ \A k \in CallsMade : log[k].origin = Form
    /\ IF Form = "other"
       THEN /\ phase = "failed"
            /\ error = Err("WrongType", <<"v">>, TypeOf(input.value))
       ELSE /\ phase = "done"
            /\ \E k \in CallsMade :
                   /\ log[k].name = <<"v">>
                   /\ log[k].call.rule = input.site
                   /\ log[k].call.params =
                          [i \in 1..Len(input.actuals) |-> input.actuals[i].value]
                   /\ Form = "fragment" =>
                          log[k].call.inserted = <<Decl(<<"c">>, <<"1">>)>>
                   /\ Form # "fragment" =>
                          log[k].call.inserted =
                              IF Form = "function" /\ input.value.does # "object"
                              THEN <<>> ELSE parse(input.value.entries)

\* C9 as stated: insertMixin dispatches on the form the record was registered
\* with: a record of a @mixin definition is expanded as a tree fragment, a
\* registered plain object is converted to nodes, a registered callable is
\* invoked with the invocation site and the ordered actuals, and a value of
\* none of these forms fails with 'Wrong <name> mixin type <typeof>'; no value
\* registered in one form is handled by another form's branch.
C9_DispatchOnForm == InDispatch /\ Ended => DispatchedOnForm

\* the same, for the registered values that are neither null nor undefined
\* and whose `name` property is not 'mixin'
C9_DispatchUnlessNamedMixin ==
    /\ InDispatch /\ Ended
    /\ Form # "fragment" => /\ input.value.kind \notin {"null", "undefined"}
                            /\ input.value.name # MIXIN
    => DispatchedOnForm

\* a run that failed at the invocation of a registered callable whose `name`
\* is 'mixin', with a TypeError instead of the call
C9_Witness ==
    /\ InDispatch /\ phase = "failed"
    /\ input.value.kind = "function" /\ input.value.name = MIXIN
    /\ error = Err("TypeError", <<"v">>, "args")
    /\ CallsMade = {}

----------------------------------------------------------------------------
(* Single arguments: a definition `@mixin m $a, $b { ... }` whose           *)
(* declarations refer to the formals once, twice or together, at the top   *)
(* and inside a rule, invoked with two actuals.                            *)

MaxDecls == 2

\* a piece of a declaration value: a literal text or a reference to a formal
Literal(text) == [ref |-> 0, text |-> text]

Reference(i) == [ref |-> i, text |-> <<>>]

\* declaration values: $a / $b / $a $a / $a, $b / x
RefPool ==
    { <<Reference(1)>>,
      <<Reference(2)>>,
      <<Reference(1), Literal(<<" ">>), Reference(1)>>,
      <<Reference(1), Literal(<<",", " ">>), Reference(2)>>,
      <<Literal(<<"x">>)>> }

TokenPool ==
    { Actual(<<"s", "i", "n", "g", "l", "e", "-", "a", "r", "g", "(", "1", ",", " ", "2", ")">>,
             <<"s", "i", "n", "g", "l", "e", "-", "a", "r", "g", "(", "1", ",", " ", "2", ")">>,
             <<"1", ",", " ", "2">>, TRUE, FALSE),
      Actual(<<"s", "i", "n", "g", "l", "e", "-", "a", "r", "g", "(", "3", ",", " ", "4", ")">>,
             <<"s", "i", "n", "g", "l", "e", "-", "a", "r", "g", "(", "3", ",", " ", "4", ")">>,
             <<"3", ",", " ", "4">>, TRUE, FALSE),
      Actual(<<"5">>, <<"5">>, <<>>, FALSE, FALSE) }

\* the value as written in the definition
Written(pieces) ==
    Flatten([i \in 1..Len(pieces) |->
                IF pieces[i].ref = 0 THEN pieces[i].text
                ELSE <<"$">> \o FormalNames[pieces[i].ref]])

UnwrapDecls(values) == [i \in 1..Len(values) |-> Decl(FormalNames[i], Written(values[i]))]

UnwrapDefinition(values, nested) ==
    AtRule(MIXIN, <<"m", " ", "$", "a", ",", " ", "$", "b">>,
           UnwrapDecls(values)
           \o (IF nested THEN <<Rule(<<".", "s">>, UnwrapDecls(values))>> ELSE <<>>))

InitUnwrap ==
    \E values \in SeqsUpTo(RefPool, MaxDecls),
       actuals \in [1..2 -> TokenPool],
       nested \in BOOLEAN,
       keyword \in {INCLUDE, ADD_MIXIN} :
        /\ values # <<>>
        /\ Start(<<UnwrapDefinition(values, nested), BindSite(keyword, <<"m">>, actuals)>>,
                 NoOpts, <<>>,
                 [family |-> "unwrap", values |-> values, actuals |-> actuals,
                  nested |-> nested])

SpecUnwrap == InitUnwrap /\ [][Next]_vars

----------------------------------------------------------------------------
(* Claims on the single-argument replacement pass (SpecUnwrap).            *)

InUnwrap == input.family = "unwrap"

\* what an actual stands for in the expansion: the inner text of a single-arg
\* token, the value of any other actual
Meaning(actual) == IF actual.sa THEN actual.inner ELSE actual.value

\* the value a declaration is to have after the pass
Unwrapped(pieces) ==
    Flatten([i \in 1..Len(pieces) |->
                IF pieces[i].ref = 0 THEN pieces[i].text
                ELSE Meaning(input.actuals[pieces[i].ref])])

\* how often the text of a single-arg token stands in the value before the pass
Occurrences(pieces, text) ==
    Cardinality({i \in 1..Len(pieces) : /\ pieces[i].ref # 0
                                        /\ input.actuals[pieces[i].ref].sa
                                        /\ input.actuals[pieces[i].ref].text = text})

\* the declarations of the expansion in the order of the definition: those at
\* the top, then those of the rule
ExpansionDecls(inserted) ==
    SubSeq(inserted, 1, Len(input.values))
    \o (IF input.nested THEN inserted[Len(input.values) + 1].nodes ELSE <<>>)

\* the declaration values an expansion is to have
UnwrappedDecls ==
    [i \in 1..Len(input.values) |-> Decl(FormalNames[i], Unwrapped(input.values[i]))]

\* C11 as stated: after the replacement pass every occurrence of a single-arg
\* token of the invocation in a declaration value of the expansion, at the top
\* or nested in a rule, is replaced by the token's inner text, so that no
\* declaration value of the expansion holds a single-arg token, also when a
\* formal is referred to several times in one value or one token is passed
\* for several formals.
C11_EveryOccurrenceReplaced ==
    InUnwrap =>
        \A k \in 1..Len(log) : FragmentCall(k) =>
            LET decls == ExpansionDecls(log[k].call.inserted)
            IN  /\ Len(log[k].call.inserted) = Len(input.values) + (IF input.nested THEN 1 ELSE 0)
                /\ decls = UnwrappedDecls \o (IF input.nested THEN UnwrappedDecls ELSE <<>>)
                /\ \A d \in 1..Len(decls) : ~Includes(decls[d].value, SINGLE_ARG)

\* the same, for the declarations whose value holds no token text twice: the
\* first occurrence of each token is replaced
C11_FirstOccurrenceReplaced ==
    InUnwrap =>
        \A k \in 1..Len(log) : FragmentCall(k) =>
            LET decls == ExpansionDecls(log[k].call.inserted)
                n == Len(input.values)
            IN  /\ Len(decls) = n * (IF input.nested THEN 2 ELSE 1)
                /\ \A d \in 1..Len(decls) :
                       LET pieces == input.values[((d - 1) % n) + 1]
                       IN  (\A a \in 1..2 : Occurrences(pieces, input.actuals[a].text) <= 1)
                           => decls[d] = UnwrappedDecls[((d - 1) % n) + 1]

\* a finished run whose expansion, at the top and inside the rule, still holds
\* a single-arg token: the formal it is bound to is referred to twice
C11_Witness ==
    /\ InUnwrap /\ phase = "done"
    /\ input.nested
    /\ \E i \in 1..Len(input.values) :
           /\ Occurrences(input.values[i], input.actuals[1].text) = 2
           /\ Includes(tree[i].value, SINGLE_ARG)
           /\ Includes(tree[Len(input.values) + 1].nodes[i].value, SINGLE_ARG)

====
